---- MODULE Spec2Model ----
(***************************************************************************)
(* Model of the two scenario-test runners of the repository:               *)
(*   src/e2e/test_runner.py                        (gateway runner)        *)
(*   src/.scratch-archive/fold-swarm/test-jail-integration.py (jail runner)*)
(*                                                                         *)
(* Three specifications share the variables:                               *)
(*   Spec        a whole run of either runner (prober, scenarios,          *)
(*               aggregator, exit code)                                    *)
(*   SpecSend    send_message and the single-agent scenarios as functions  *)
(*               of one HTTP outcome                                       *)
(*   SpecFanout  test_parallel_messages with its member calls interleaved  *)
(*                                                                         *)
(* Python text is a sequence of one-character strings, so that lower()     *)
(* and the substring test `in` are computed.  A Python value is a record   *)
(* [t, v]; an exception is a value of its own, never a crash of the model. *)
(***************************************************************************)
EXTENDS Integers, Sequences, FiniteSets, TLC

VARIABLES
  program,      \* which runner this run is: "jail" | "gateway"
  pc,           \* position of the run in run_all_tests / run_tests
  now,          \* inside the prober: time.time() - start, in the runner's unit
  proberResult, \* "none" | "true" | "false" | "raised"
  started,      \* names of the scenario functions called so far, in order
  lastRaised,   \* whether the scenario called last raised inside its body
  wsEvent,      \* jail runner: what ws.recv() delivered to the last scenario
  agent_ids,    \* gateway runner: run_tests' agent_ids
  results,      \* gateway runner: run_tests' results list
  passed,       \* gateway runner: aggregator's passed counter (-1: not set)
  failed,       \* gateway runner: aggregator's failed counter (-1: not set)
  written,      \* gateway runner: the summary written to the results file
  exitCode,     \* process exit status (-1 while running)
  uncaught,     \* the process ended on an uncaught exception (traceback)
  httpOutcome,  \* SpecSend: the outcome of client.post given to the call
  callOut,      \* SpecSend: what send_message returned or raised
  scen,         \* SpecSend: the scenario function applied
  tr,           \* SpecSend: the TestResult it returned
  members,      \* SpecFanout: the member tasks of asyncio.gather
  fanPc,        \* SpecFanout: position inside test_parallel_messages
  parResult     \* SpecFanout: the TestResult of test_parallel_messages

vars == <<program, pc, now, proberResult, started, lastRaised, wsEvent,
          agent_ids, results, passed, failed, written, exitCode, uncaught,
          httpOutcome, callOut, scen, tr, members, fanPc, parResult>>

runVars == <<program, pc, now, proberResult, started, lastRaised, wsEvent,
             agent_ids, results, passed, failed, written, exitCode, uncaught>>
sendVars == <<httpOutcome, callOut, scen, tr>>
fanVars == <<members, fanPc, parResult>>

----------------------------------------------------------------------------
(* Bounds of the model *)

\* longest streamed body (in lines) given to send_message
MaxLines == 2
\* longest streamed body given to a member call of the fan-out
MaxParLines == 1
\* most agents the gateway's /api/agents listing registers
MaxAgents == 2
\* longest time one probe attempt takes, in the prober's time unit
MaxProbeDur == 2

----------------------------------------------------------------------------
(* Python text *)

UpperCase == <<"A","B","C","D","E","F","G","H","I","J","K","L","M",
               "N","O","P","Q","R","S","T","U","V","W","X","Y","Z">>
LowerCase == <<"a","b","c","d","e","f","g","h","i","j","k","l","m",
               "n","o","p","q","r","s","t","u","v","w","x","y","z">>

\* str.lower() on one character
LowerChar(c) ==
  IF \E i \in 1..26 : UpperCase[i] = c
  THEN LowerCase[CHOOSE i \in 1..26 : UpperCase[i] = c]
  ELSE c

\* str.lower()
Lower(s) == [i \in 1..Len(s) |-> LowerChar(s[i])]

\* `sub in s` on two strings
Contains(s, sub) ==
  \E i \in 0..(Len(s) - Len(sub)) : SubSeq(s, i + 1, i + Len(sub)) = sub

T_empty == <<>>
T_hi == <<"h","i">>
T_ok == <<"o","k">>
T_text == <<"t","e","x","t">>
T_tool_use == <<"t","o","o","l","_","u","s","e">>
T_log_entry == <<"l","o","g","_","e","n","t","r","y">>
T_full_response == <<"f","u","l","l","_","r","e","s","p","o","n","s","e">>
T_logged == <<"l","o","g","g","e","d">>
T_found == <<"f","o","u","n","d">>
T_entries == <<"e","n","t","r","i","e","s">>
T_Logged_it == <<"L","o","g","g","e","d"," ","i","t">>
T_Two_Entries == <<"2"," ","E","n","t","r","i","e","s">>
T_type == <<"t","y","p","e">>
T_name == <<"n","a","m","e">>
T_list1 == <<"[","1","]">>
T_seven == <<"7">>

----------------------------------------------------------------------------
(* Python values *)

PyNone == [t |-> "none", v |-> <<>>]
PyStr(s) == [t |-> "str", v |-> s]
PyNum(s) == [t |-> "num", v |-> s]
\* a key a dict does not have
Absent == [t |-> "absent", v |-> <<>>]

\* a JSON object with (at most) the keys type, name, full_response
Dict(ty, nm, fr) ==
  [k |-> "dict", type |-> ty, name |-> nm, full_response |-> fr, s |-> <<>>]
\* a JSON value that is no object: k is "list", "str", "num"; s its text
NonDict(kind, text) ==
  [k |-> kind, type |-> Absent, name |-> Absent, full_response |-> Absent,
   s |-> text]

DecodeError == [k |-> "JSONDecodeError", type |-> Absent, name |-> Absent,
                full_response |-> Absent, s |-> <<>>]

\* json.loads on the payload texts the model streams
JsonLoads(body) ==
  CASE body = "{\"type\": \"text\"}" ->
         Dict(PyStr(T_text), Absent, Absent)
    [] body = "{\"type\": \"tool_use\"}" ->
         Dict(PyStr(T_tool_use), Absent, Absent)
    [] body = "{\"name\": \"log_entry\"}" ->
         Dict(Absent, PyStr(T_log_entry), Absent)
    [] body = "{\"full_response\": \"Logged it\"}" ->
         Dict(Absent, Absent, PyStr(T_Logged_it))
    [] body = "{\"full_response\": \"2 Entries\"}" ->
         Dict(Absent, Absent, PyStr(T_Two_Entries))
    [] body = "{\"full_response\": \"hi\"}" ->
         Dict(Absent, Absent, PyStr(T_hi))
    [] body = "{\"full_response\": \"\"}" ->
         Dict(Absent, Absent, PyStr(T_empty))
    [] body = "{\"full_response\": null}" ->
         Dict(Absent, Absent, PyNone)
    [] body = "{\"full_response\": 7}" ->
         Dict(Absent, Absent, PyNum(T_seven))
    [] body = "[1]" -> NonDict("list", T_list1)
    [] body = "\"ok\"" -> NonDict("str", T_ok)
    [] body = "\"full_response\"" -> NonDict("str", T_full_response)
    [] body = "7" -> NonDict("num", T_seven)
    [] OTHER -> DecodeError

\* the payload texts streamed after the marker "data: "
Bodies ==
  { "{\"type\": \"text\"}", "{\"type\": \"tool_use\"}",
    "{\"name\": \"log_entry\"}", "{\"full_response\": \"Logged it\"}",
    "{\"full_response\": \"2 Entries\"}", "{\"full_response\": \"hi\"}",
    "{\"full_response\": \"\"}", "{\"full_response\": null}",
    "{\"full_response\": 7}", "[1]", "\"ok\"", "\"full_response\"", "7",
    "{oops" }

\* a line of resp.text: marker followed by body
Lines ==
  { [marker |-> "data: ", body |-> b] : b \in Bodies }
  \cup { [marker |-> "", body |-> ""],
         [marker |-> "event: ", body |-> "message"],
         [marker |-> "data:", body |-> "{\"full_response\": \"hi\"}"] }

SeqsUpTo(S, n) == UNION { [1..k -> S] : k \in 0..n }

\* what `await client.post(...)` produces: an exception or a response
HttpOutcomes(n) ==
  { [kind |-> "exc", status_code |-> 0, lines |-> <<>>] }
  \cup { [kind |-> "resp", status_code |-> st, lines |-> ls] :
           st \in {200, 500}, ls \in SeqsUpTo(Lines, n) }

SendOutcomes == HttpOutcomes(MaxLines)
ParOutcomes == HttpOutcomes(MaxParLines)

----------------------------------------------------------------------------
(* send_message: POST /api/send and parse the streamed reply *)

\* what send_message hands back: a dict, or the exception it raised
SendResult(st, evs, fr) ==
  [kind |-> "ok", type |-> "", status_code |-> st, events |-> evs,
   full_response |-> fr]
SendRaised(ty) ==
  [kind |-> "exc", type |-> ty, status_code |-> 0, events |-> <<>>,
   full_response |-> PyNone]

\* line.startswith("data: ")
StartsWithData(line) == line.marker = "data: "

\* `"full_response" in data`: "yes", "no", or the TypeError of a value that
\* is no container (a number)
InData(data) ==
  CASE data.k = "dict" ->
         IF data.full_response # Absent THEN "yes" ELSE "no"
    [] data.k = "list" -> "no"
    [] data.k = "str" ->
         IF Contains(data.s, T_full_response) THEN "yes" ELSE "no"
    [] OTHER -> "TypeError"

\* the loop body of send_message from line i on, with the locals events and
\* full_response; only json.JSONDecodeError is caught
RECURSIVE ParseLines(_, _, _, _, _)
ParseLines(st, lines, i, events, fr) ==
  IF i > Len(lines) THEN SendResult(st, events, fr)
  ELSE IF ~StartsWithData(lines[i])
       THEN ParseLines(st, lines, i + 1, events, fr)
       ELSE LET data == JsonLoads(lines[i].body) IN
            IF data = DecodeError
            THEN ParseLines(st, lines, i + 1, events, fr)
            ELSE LET evs == Append(events, data)
                     has == InData(data)
                 IN CASE has = "TypeError" -> SendRaised("TypeError")
                      [] has = "no" -> ParseLines(st, lines, i + 1, evs, fr)
                      [] OTHER ->
                           \* data["full_response"]; a str cannot be indexed
                           \* by a key
                           IF data.k = "dict"
                           THEN ParseLines(st, lines, i + 1, evs,
                                           data.full_response)
                           ELSE SendRaised("TypeError")

send_message(o) ==
  IF o.kind = "exc" THEN SendRaised("HTTPError")
  ELSE ParseLines(o.status_code, o.lines, 1, <<>>, PyNone)

----------------------------------------------------------------------------
(* Scenario functions of the gateway runner.  Each returns its TestResult  *)
(* with one more field, raised: whether the except branch built it.        *)

TestResult(nm, ok, err, exc) ==
  [name |-> nm, passed |-> ok, error |-> err, raised |-> exc]
\* the normal return: error is None iff passed
Verdict(nm, ok) == TestResult(nm, ok, IF ok THEN "None" ELSE "text", FALSE)
\* variant of the except branch that reports the scenario as passed
CaughtAsPass(nm) == TestResult(nm, TRUE, "None", TRUE)

\* the except branch: passed=False, error=str(e)
Caught(nm) == TestResult(nm, FALSE, "text", TRUE)

\* len(x) > 0: "yes", "no", or the TypeError of a value without a length
LenPositive(x) ==
  CASE x.t = "str" -> IF Len(x.v) > 0 THEN "yes" ELSE "no"
    [] OTHER -> "TypeError"

test_simple_message(agent_id, o) ==
  LET nm == <<"simple-message-", agent_id>>
      result == send_message(o)
  IN IF result.kind = "exc" THEN Caught(nm)
     ELSE IF result.status_code # 200 \/ result.full_response = PyNone
          THEN Verdict(nm, FALSE)
          ELSE LET n == LenPositive(result.full_response) IN
               IF n = "TypeError" THEN Caught(nm) ELSE Verdict(nm, n = "yes")

\* needle in str(e): the repr of a dict shows its keys and values, str of a
\* str is the text itself, the repr of the list is its text
InStr(e, needle) ==
  IF e.k = "dict"
  THEN \/ (e.type # Absent /\ (Contains(T_type, needle)
                               \/ Contains(e.type.v, needle)))
       \/ (e.name # Absent /\ (Contains(T_name, needle)
                               \/ Contains(e.name.v, needle)))
       \/ (e.full_response # Absent
           /\ (Contains(T_full_response, needle)
               \/ Contains(e.full_response.v, needle)))
  ELSE Contains(e.s, needle)

\* any("tool_use" in str(e) or e.get("name") == "log_entry" for e in events)
\* from event i on: "yes", "no", or the AttributeError of e.get on a value
\* that is no dict
RECURSIVE HasToolUse(_, _)
HasToolUse(events, i) ==
  IF i > Len(events) THEN "no"
  ELSE LET e == events[i] IN
       IF InStr(e, T_tool_use) THEN "yes"
       ELSE IF e.k # "dict" THEN "AttributeError"
       ELSE IF e.name = PyStr(T_log_entry) THEN "yes"
       ELSE HasToolUse(events, i + 1)

\* variant of the keyword test without .lower()
InCaseSensitive(x, needle) ==
  CASE x.t = "str" -> IF Contains(x.v, needle) THEN "yes" ELSE "no"
    [] OTHER -> "AttributeError"

\* needle in x.lower(): "yes", "no", or the AttributeError of a value
\* without lower()
InLower(x, needle) ==
  CASE x.t = "str" -> IF Contains(Lower(x.v), needle) THEN "yes" ELSE "no"
    [] OTHER -> "AttributeError"

test_pack_tool_log_entry(agent_id, o) ==
  LET nm == <<"pack-tool-log-entry-", agent_id>>
      result == send_message(o)
  IN IF result.kind = "exc" THEN Caught(nm)
     ELSE LET has_tool_use == HasToolUse(result.events, 1) IN
          IF has_tool_use = "AttributeError" THEN Caught(nm)
          ELSE IF result.status_code # 200 \/ result.full_response = PyNone
               THEN Verdict(nm, FALSE)
               ELSE IF has_tool_use = "yes" THEN Verdict(nm, TRUE)
                    ELSE LET kw == InLower(result.full_response, T_logged) IN
                         IF kw = "AttributeError" THEN Caught(nm)
                         ELSE Verdict(nm, kw = "yes")

test_pack_tool_log_search(agent_id, o) ==
  LET nm == <<"pack-tool-log-search-", agent_id>>
      result == send_message(o)
  IN IF result.kind = "exc" THEN Caught(nm)
     ELSE IF result.status_code # 200 \/ result.full_response = PyNone
          THEN Verdict(nm, FALSE)
          ELSE LET f == InLower(result.full_response, T_found) IN
               IF f = "AttributeError" THEN Caught(nm)
               ELSE IF f = "yes" THEN Verdict(nm, TRUE)
                    ELSE Verdict(nm, InLower(result.full_response,
                                             T_entries) = "yes")

\* variant of the member check that also asks for len(...) > 0, as
\* test_simple_message does
MemberOkNonEmpty(r) ==
  /\ r.kind = "ok"
  /\ r.full_response # PyNone
  /\ LenPositive(r.full_response) = "yes"

\* isinstance(r, dict) and r.get("full_response") is not None
MemberOk(r) == r.kind = "ok" /\ r.full_response # PyNone

\* the body of test_parallel_messages after asyncio.gather returned rs
test_parallel_messages(rs) ==
  Verdict(<<"parallel-messages">>, \A i \in 1..Len(rs) : MemberOk(rs[i]))

----------------------------------------------------------------------------
(* SpecSend: send_message and the single-agent scenarios on one outcome *)

NotCalled ==
  [kind |-> "none", type |-> "", status_code |-> 0, events |-> <<>>,
   full_response |-> PyNone]
NoResult == TestResult(<<>>, FALSE, "None", FALSE)

IdleSend ==
  /\ httpOutcome = [kind |-> "exc", status_code |-> 0, lines |-> <<>>]
  /\ callOut = NotCalled
  /\ scen = "none"
  /\ tr = NoResult

IdleFan ==
  /\ members = <<>>
  /\ fanPc = "idle"
  /\ parResult = NoResult

IdleRun ==
  /\ program = "none"
  /\ pc = [at |-> "idle", i |-> 0]
  /\ now = 0
  /\ proberResult = "none"
  /\ started = <<>>
  /\ lastRaised = FALSE
  /\ wsEvent = [conn |-> "none", sent |-> "none", kind |-> "none", raw |-> ""]
  /\ agent_ids = <<>>
  /\ results = <<>>
  /\ passed = -1
  /\ failed = -1
  /\ written = [file |-> FALSE, passed |-> 0, failed |-> 0, count |-> 0]
  /\ exitCode = -1
  /\ uncaught = FALSE

InitSend ==
  /\ IdleRun
  /\ IdleFan
  /\ httpOutcome \in SendOutcomes
  /\ callOut = NotCalled
  /\ scen = "none"
  /\ tr = NoResult

\* a bare call of send_message
CallSendMessage ==
  /\ callOut = NotCalled
  /\ callOut' = send_message(httpOutcome)
  /\ UNCHANGED <<httpOutcome, scen, tr>>
  /\ UNCHANGED runVars
  /\ UNCHANGED fanVars

ApplySimple ==
  /\ scen = "none"
  /\ scen' = "simple"
  /\ callOut' = send_message(httpOutcome)
  /\ tr' = test_simple_message("a1", httpOutcome)
  /\ UNCHANGED httpOutcome
  /\ UNCHANGED runVars
  /\ UNCHANGED fanVars

ApplyLogEntry ==
  /\ scen = "none"
  /\ scen' = "log_entry"
  /\ callOut' = send_message(httpOutcome)
  /\ tr' = test_pack_tool_log_entry("a1", httpOutcome)
  /\ UNCHANGED httpOutcome
  /\ UNCHANGED runVars
  /\ UNCHANGED fanVars

ApplyLogSearch ==
  /\ scen = "none"
  /\ scen' = "log_search"
  /\ callOut' = send_message(httpOutcome)
  /\ tr' = test_pack_tool_log_search("a1", httpOutcome)
  /\ UNCHANGED httpOutcome
  /\ UNCHANGED runVars
  /\ UNCHANGED fanVars

NextSend == CallSendMessage \/ ApplySimple \/ ApplyLogEntry \/ ApplyLogSearch

SpecSend == InitSend /\ [][NextSend]_vars

----------------------------------------------------------------------------
(* SpecFanout: test_parallel_messages(client, agent_ids[:2]).  gather     *)
(* wraps each send_message coroutine in a task; every task runs to its    *)
(* await of client.post, and each settles when its reply (or error)       *)
(* arrives, in any order.                                                  *)

\* the fan-out is over the first two agents
FanWidth == 2

Pending == [st |-> "pending", r |-> NotCalled]
InFlight == [st |-> "inflight", r |-> NotCalled]
Settled(r) == [st |-> "settled", r |-> r]

InitFanout ==
  /\ IdleRun
  /\ IdleSend
  /\ members = [i \in 1..FanWidth |-> Pending]
  /\ fanPc = "start"
  /\ parResult = NoResult

\* tasks = [...]; asyncio.gather(*tasks, return_exceptions=True) schedules
\* every member; each runs up to its POST
FanLaunch ==
  /\ fanPc = "start"
  /\ fanPc' = "gather"
  /\ members' = [i \in 1..FanWidth |-> InFlight]
  /\ UNCHANGED parResult
  /\ UNCHANGED runVars
  /\ UNCHANGED sendVars

\* member i's POST completes and its send_message returns or raises; with
\* return_exceptions=True the exception is that member's result
MemberSettle(i) ==
  /\ fanPc = "gather"
  /\ members[i].st = "inflight"
  /\ \E o \in ParOutcomes :
       members' = [members EXCEPT ![i] = Settled(send_message(o))]
  /\ UNCHANGED <<fanPc, parResult>>
  /\ UNCHANGED runVars
  /\ UNCHANGED sendVars

\* variant of gather without return_exceptions=True: the first member
\* exception resumes the scenario at once
GatherFirstException(ms) ==
  \/ \A i \in 1..FanWidth : ms[i].st = "settled"
  \/ \E i \in 1..FanWidth : ms[i].st = "settled" /\ ms[i].r.kind = "exc"

\* when the await of gather resumes test_parallel_messages
GatherDone(ms) == \A i \in 1..FanWidth : ms[i].st = "settled"

\* results = await gather(...); all_passed = all(...); return TestResult
FanGather ==
  /\ fanPc = "gather"
  /\ GatherDone(members)
  /\ fanPc' = "returned"
  /\ parResult' = test_parallel_messages([i \in 1..FanWidth |-> members[i].r])
  /\ UNCHANGED members
  /\ UNCHANGED runVars
  /\ UNCHANGED sendVars

NextFanout ==
  \/ FanLaunch
  \/ \E i \in 1..FanWidth : MemberSettle(i)
  \/ FanGather

SpecFanout == InitFanout /\ [][NextFanout]_vars

----------------------------------------------------------------------------
(* Spec: a whole run of either runner *)

At(l) == pc.at = l
Goto(l) == [at |-> l, i |-> 0]
GotoAgent(l, i) == [at |-> l, i |-> i]

NoWs == [conn |-> "none", sent |-> "none", kind |-> "none", raw |-> ""]
NoFile == [file |-> FALSE, passed |-> 0, failed |-> 0, count |-> 0]

Init ==
  /\ IdleSend
  /\ IdleFan
  /\ program \in {"jail", "gateway"}
  /\ pc = Goto("wait")
  /\ now = 0
  /\ proberResult = "none"
  /\ started = <<>>
  /\ lastRaised = FALSE
  /\ wsEvent = NoWs
  /\ agent_ids = <<>>
  /\ results = <<>>
  /\ passed = -1
  /\ failed = -1
  /\ written = NoFile
  /\ exitCode = -1
  /\ uncaught = FALSE

\* the process ends: sys.exit(code), or a traceback (status 1)
Exit(code, traceback) ==
  /\ pc' = Goto("exited")
  /\ exitCode' = code
  /\ uncaught' = traceback

----------------------------------------------------------------------------
(* Readiness probers.  Time is counted in seconds in the gateway runner   *)
(* and in tenths of a second in the jail runner.                           *)

\* wait_for_gateway(client, max_wait=60)
GatewayMaxWait == 60
\* await asyncio.sleep(1)
GatewaySleep == 1
\* wait_for_server(url, timeout=10.0), in tenths of a second
JailTimeout == 100
\* await asyncio.sleep(0.2), in tenths of a second
JailSleep == 2

Deadline == IF program = "gateway" THEN GatewayMaxWait ELSE JailTimeout

\* variant of the loop condition with `<=` for `<`
LoopGoesOnInclusive(elapsed) == elapsed <= Deadline

\* `while time.time() - start < max_wait`: the loop goes on
LoopGoesOn(elapsed) == elapsed < Deadline

\* the loop condition holds: the next probe attempt begins
ProberAttempt ==
  /\ At("wait")
  /\ LoopGoesOn(now)
  /\ pc' = Goto("probing")
  /\ UNCHANGED <<program, now, proberResult, started, lastRaised, wsEvent,
                 agent_ids, results, passed, failed, written, exitCode,
                 uncaught>>
  /\ UNCHANGED sendVars
  /\ UNCHANGED fanVars

\* the loop condition fails: `return False`
ProberGivesUp ==
  /\ At("wait")
  /\ ~LoopGoesOn(now)
  /\ pc' = Goto("gate")
  /\ proberResult' = "false"
  /\ UNCHANGED <<program, now, started, lastRaised, wsEvent,
                 agent_ids, results, passed, failed, written, exitCode,
                 uncaught>>
  /\ UNCHANGED sendVars
  /\ UNCHANGED fanVars

ProberReturn(d, res) ==
  /\ now' = now + d
  /\ pc' = Goto("gate")
  /\ proberResult' = res
  /\ UNCHANGED <<program, started, lastRaised, wsEvent,
                 agent_ids, results, passed, failed, written, exitCode,
                 uncaught>>
  /\ UNCHANGED sendVars
  /\ UNCHANGED fanVars

ProberSleeps(d, nap) ==
  /\ now' = now + d + nap
  /\ pc' = Goto("wait")
  /\ UNCHANGED <<program, proberResult, started, lastRaised, wsEvent,
                 agent_ids, results, passed, failed, written, exitCode,
                 uncaught>>
  /\ UNCHANGED sendVars
  /\ UNCHANGED fanVars

\* what `await client.get(f"{GATEWAY_URL}/health")` does in wait_for_gateway
GwProbeOutcomes == {"200", "500", "Exception"}

\* wait_for_gateway on one attempt's outcome: "true" or "retry"; every
\* Exception is swallowed by `except Exception: pass`
wait_for_gateway_on(outcome) ==
  IF outcome = "200" THEN "true" ELSE "retry"

GwProbeReady ==
  /\ program = "gateway"
  /\ At("probing")
  /\ \E d \in 0..MaxProbeDur, o \in GwProbeOutcomes :
       /\ wait_for_gateway_on(o) = "true"
       /\ ProberReturn(d, "true")

\* not ready: `await asyncio.sleep(1)`, then the loop condition again
GwProbeNotReady ==
  /\ program = "gateway"
  /\ At("probing")
  /\ \E d \in 0..MaxProbeDur, o \in GwProbeOutcomes :
       /\ wait_for_gateway_on(o) = "retry"
       /\ ProberSleeps(d, GatewaySleep)

\* what websockets.connect(url) does in wait_for_server
\* "connected"; "ConnectionRefusedError", "OSError" (caught);
\* "InvalidHandshake" (a websockets exception, no OSError: not caught)
JailProbeOutcomes ==
  {"connected", "ConnectionRefusedError", "OSError", "InvalidHandshake"}

\* wait_for_server on one attempt's outcome: "true", "retry" or "raise"
wait_for_server_on(outcome) ==
  CASE outcome = "connected" -> "true"
    [] outcome \in {"ConnectionRefusedError", "OSError"} -> "retry"
    [] OTHER -> "raise"

JailProbeConnected ==
  /\ program = "jail"
  /\ At("probing")
  /\ \E d \in 0..MaxProbeDur, o \in JailProbeOutcomes :
       /\ wait_for_server_on(o) = "true"
       /\ ProberReturn(d, "true")

JailProbeRefused ==
  /\ program = "jail"
  /\ At("probing")
  /\ \E d \in 0..MaxProbeDur, o \in JailProbeOutcomes :
       /\ wait_for_server_on(o) = "retry"
       /\ ProberSleeps(d, JailSleep)

JailProbeRaises ==
  /\ program = "jail"
  /\ At("probing")
  /\ \E d \in 0..MaxProbeDur, o \in JailProbeOutcomes :
       /\ wait_for_server_on(o) = "raise"
       /\ ProberReturn(d, "raised")

\* the caller of the prober; the prober's frame (start, the clock) is gone
\* run_tests: `if not await wait_for_gateway(client): ... sys.exit(1)`
\* run_all_tests: `if not await wait_for_server(JAIL_URL): ... return False`,
\* then main: sys.exit(0 if success else 1); an exception out of
\* wait_for_server is outside the try of run_all_tests
Gate ==
  /\ At("gate")
  /\ now' = 0
  /\ CASE proberResult = "true" ->
            /\ pc' = Goto(IF program = "gateway" THEN "fetch_agents"
                          ELSE "test_connection")
            /\ UNCHANGED <<exitCode, uncaught>>
       [] proberResult = "false" -> Exit(1, FALSE)
       [] OTHER -> Exit(1, TRUE)
  /\ UNCHANGED <<program, proberResult, started, lastRaised, wsEvent,
                 agent_ids, results, passed, failed, written>>
  /\ UNCHANGED sendVars
  /\ UNCHANGED fanVars

----------------------------------------------------------------------------
(* Jail runner: the four scenarios, called in order inside one try *)

\* outcomes of `websockets.connect(JAIL_URL)` and of `ws.send(...)`
ConnOutcomes == {"ok", "fail"}

\* the reply frames the model's jail server sends
WsBodies ==
  { "{\"type\": \"error\", \"channel_id\": \"test-channel-123\"}",
    "{\"type\": \"text\", \"channel_id\": \"test-channel-123\"}",
    "{\"type\": \"text\", \"channel_id\": \"other\"}",
    "{\"type\": \"bogus\", \"channel_id\": \"test-channel-123\"}",
    "{\"type\": \"error\"}", "[1]", "oops" }

WsDict(ty, ch) == [k |-> "dict", type |-> ty, channel_id |-> ch]

\* json.loads on the reply frames; "None" is what .get gives for no key
JsonLoadsWs(raw) ==
  CASE raw = "{\"type\": \"error\", \"channel_id\": \"test-channel-123\"}" ->
         WsDict("error", "test-channel-123")
    [] raw = "{\"type\": \"text\", \"channel_id\": \"test-channel-123\"}" ->
         WsDict("text", "test-channel-123")
    [] raw = "{\"type\": \"text\", \"channel_id\": \"other\"}" ->
         WsDict("text", "other")
    [] raw = "{\"type\": \"bogus\", \"channel_id\": \"test-channel-123\"}" ->
         WsDict("bogus", "test-channel-123")
    [] raw = "{\"type\": \"error\"}" -> WsDict("error", "None")
    [] raw = "[1]" -> [k |-> "list", type |-> "None", channel_id |-> "None"]
    [] OTHER -> [k |-> "JSONDecodeError", type |-> "None",
                 channel_id |-> "None"]

\* what `await asyncio.wait_for(ws.recv(), timeout=...)` delivers: a frame,
\* asyncio.TimeoutError, or websockets' ConnectionClosed
WsEvents ==
  { [kind |-> "timeout", raw |-> ""], [kind |-> "closed", raw |-> ""] }
  \cup { [kind |-> "reply", raw |-> b] : b \in WsBodies }

\* a jail scenario ends "returned", or raising "AssertionError" or another
\* "Exception"
test_connection(conn) == IF conn = "ok" THEN "returned" ELSE "Exception"

test_query_message_protocol(conn, sent, ev) ==
  IF conn # "ok" \/ sent # "ok" THEN "Exception"
  ELSE CASE ev.kind = "timeout" -> "returned"
         [] ev.kind = "closed" -> "Exception"
         [] OTHER ->
              LET response == JsonLoadsWs(ev.raw) IN
              IF response.k # "dict" THEN "Exception"
              ELSE IF response.type \notin {"text", "tool_use", "done", "error"}
                   THEN "AssertionError"
              ELSE IF response.channel_id # "test-channel-123"
                   THEN "AssertionError"
              ELSE "returned"

test_close_session(conn, sent) ==
  IF conn # "ok" \/ sent # "ok" THEN "Exception" ELSE "returned"

\* only asyncio.TimeoutError is caught around the recv
test_invalid_message(conn, sent, ev) ==
  IF conn # "ok" \/ sent # "ok" THEN "Exception"
  ELSE CASE ev.kind = "timeout" -> "returned"
         [] ev.kind = "closed" -> "Exception"
         [] OTHER ->
              LET response == JsonLoadsWs(ev.raw) IN
              IF response.k # "dict" THEN "Exception"
              ELSE IF response.type # "error" THEN "AssertionError"
              ELSE "returned"

\* run_all_tests around one scenario: a return goes on to `next` (after the
\* last one: ALL SCENARIOS PASSED, return True, exit 0); AssertionError and
\* Exception are both caught by the one try: return False, exit 1
JailStep(name, outcome, next, ws) ==
  /\ started' = Append(started, <<name>>)
  /\ lastRaised' = (outcome # "returned")
  /\ wsEvent' = ws
  /\ IF outcome = "returned"
     THEN IF next = "exit"
          THEN Exit(0, FALSE)
          ELSE /\ pc' = Goto(next)
               /\ UNCHANGED <<exitCode, uncaught>>
     ELSE Exit(1, FALSE)
  /\ UNCHANGED <<program, now, proberResult, agent_ids, results, passed,
                 failed, written>>
  /\ UNCHANGED sendVars
  /\ UNCHANGED fanVars

\* the frame reaches the scenario only on a connection that opened and sent
Ws(conn, sent, ev) ==
  IF conn = "ok" /\ sent = "ok"
  THEN [conn |-> conn, sent |-> sent, kind |-> ev.kind, raw |-> ev.raw]
  ELSE [conn |-> conn, sent |-> sent, kind |-> "none", raw |-> ""]

JailTestConnection ==
  /\ program = "jail"
  /\ At("test_connection")
  /\ \E c \in ConnOutcomes :
       JailStep("test_connection", test_connection(c),
                "test_query_message_protocol", NoWs)

JailTestQuery ==
  /\ program = "jail"
  /\ At("test_query_message_protocol")
  /\ \E c \in ConnOutcomes, snd \in ConnOutcomes, ev \in WsEvents :
       JailStep("test_query_message_protocol",
                test_query_message_protocol(c, snd, ev),
                "test_close_session", Ws(c, snd, ev))

JailTestClose ==
  /\ program = "jail"
  /\ At("test_close_session")
  /\ \E c \in ConnOutcomes, snd \in ConnOutcomes :
       JailStep("test_close_session", test_close_session(c, snd),
                "test_invalid_message", NoWs)

JailTestInvalid ==
  /\ program = "jail"
  /\ At("test_invalid_message")
  /\ \E c \in ConnOutcomes, snd \in ConnOutcomes, ev \in WsEvents :
       JailStep("test_invalid_message", test_invalid_message(c, snd, ev),
                "exit", Ws(c, snd, ev))

----------------------------------------------------------------------------
(* Gateway runner *)

\* the ids the gateway's registry hands out, in registration order
AgentPool == <<"a1", "a2", "a3", "a4">>

Entry(id) == [hasId |-> TRUE, id |-> id]
NoIdEntry == [hasId |-> FALSE, id |-> ""]

\* bodies of GET /api/agents: text that is no JSON, a JSON object (its keys),
\* or a JSON array of entries
AgentBodies ==
  { [k |-> "invalid", keys |-> <<>>, items |-> <<>>],
    [k |-> "dict", keys |-> <<>>, items |-> <<>>],
    [k |-> "dict", keys |-> <<"agents">>, items |-> <<>>] }
  \cup { [k |-> "list", keys |-> <<>>,
          items |-> [i \in 1..n |-> Entry(AgentPool[i])]] : n \in 0..MaxAgents }
  \cup { [k |-> "list", keys |-> <<>>, items |-> <<NoIdEntry>>],
         [k |-> "list", keys |-> <<>>, items |-> <<Entry("a1"), NoIdEntry>>] }

\* what `await client.get(...)` produces: an exception or a response
GetOutcomes(bodies) ==
  { [kind |-> "exc", status_code |-> 0, body |-> b] :
      b \in {[k |-> "invalid", keys |-> <<>>, items |-> <<>>]} }
  \cup { [kind |-> "resp", status_code |-> st, body |-> b] :
           st \in {200, 500}, b \in bodies }

AgentGets == GetOutcomes(AgentBodies)
HealthGets == GetOutcomes({[k |-> "invalid", keys |-> <<>>, items |-> <<>>]})

\* run_tests lines 292-294, outside any try:
\*   resp = await client.get(...); agents = resp.json() if 200 else []
\*   agent_ids = [a["id"] for a in agents]
\* gives [ok |-> TRUE, ids] or [ok |-> FALSE] for the exception that escapes
FetchAgentIds(o) ==
  LET raise == [ok |-> FALSE, ids |-> <<>>] IN
  IF o.kind = "exc" THEN raise
  ELSE IF o.status_code # 200 THEN [ok |-> TRUE, ids |-> <<>>]
  ELSE CASE o.body.k = "invalid" -> raise
         \* iterating a dict yields its keys: a["id"] on a str is a TypeError
         [] o.body.k = "dict" ->
              IF Len(o.body.keys) = 0 THEN [ok |-> TRUE, ids |-> <<>>]
              ELSE raise
         [] OTHER ->
              IF \E i \in 1..Len(o.body.items) : ~o.body.items[i].hasId
              THEN raise
              ELSE [ok |-> TRUE,
                    ids |-> [i \in 1..Len(o.body.items) |->
                               o.body.items[i].id]]

test_gateway_health(o) ==
  IF o.kind = "exc" THEN Caught(<<"gateway-health">>)
  ELSE Verdict(<<"gateway-health">>, o.status_code = 200)

\* passed = resp.status_code == 200 and isinstance(resp.json(), list)
test_agent_list(o) ==
  IF o.kind = "exc" THEN Caught(<<"agent-list">>)
  ELSE IF o.status_code # 200 THEN Verdict(<<"agent-list">>, FALSE)
  ELSE IF o.body.k = "invalid" THEN Caught(<<"agent-list">>)
  ELSE Verdict(<<"agent-list">>, o.body.k = "list")

\* every TestResult each scenario function can return, over all the outcomes
\* of its network calls
HealthResults == { test_gateway_health(o) : o \in HealthGets }
AgentListResults == { test_agent_list(o) : o \in AgentGets }
SimpleResults ==
  [a \in 1..Len(AgentPool) |->
     { test_simple_message(AgentPool[a], o) : o \in SendOutcomes }]
LogEntryResults ==
  [a \in 1..Len(AgentPool) |->
     { test_pack_tool_log_entry(AgentPool[a], o) : o \in SendOutcomes }]
LogSearchResults ==
  [a \in 1..Len(AgentPool) |->
     { test_pack_tool_log_search(AgentPool[a], o) : o \in SendOutcomes }]
ParallelResults ==
  { test_parallel_messages(<<send_message(o1), send_message(o2)>>) :
      o1 \in ParOutcomes, o2 \in ParOutcomes }

\* `async with httpx.AsyncClient()` passes the exception on; asyncio.run
\* re-raises it and the interpreter ends with a traceback, status 1
GwFetchAgents ==
  /\ program = "gateway"
  /\ At("fetch_agents")
  /\ \E o \in AgentGets :
       LET got == FetchAgentIds(o) IN
       IF got.ok
       THEN /\ agent_ids' = got.ids
            /\ pc' = Goto("gateway_health")
            /\ UNCHANGED <<exitCode, uncaught>>
       ELSE /\ Exit(1, TRUE)
            /\ UNCHANGED agent_ids
  /\ UNCHANGED <<program, now, proberResult, started, lastRaised, wsEvent,
                 results, passed, failed, written>>
  /\ UNCHANGED sendVars
  /\ UNCHANGED fanVars

\* results.append(await test_x(...)): the TestResult as the dataclass holds it
Stored(r) == [name |-> r.name, passed |-> r.passed, error |-> r.error]

\* one `results.append(await scenario(...))` of run_tests
GwRecord(r, next) ==
  /\ started' = Append(started, r.name)
  /\ lastRaised' = r.raised
  /\ results' = Append(results, Stored(r))
  /\ pc' = next
  /\ UNCHANGED <<program, now, proberResult, wsEvent, agent_ids, passed,
                 failed, written, exitCode, uncaught>>
  /\ UNCHANGED sendVars
  /\ UNCHANGED fanVars

\* where run_tests goes after the tests of agent i (0: before the first):
\* the next agent of the for loop, the parallel test when there are at least
\* two agents, else the results table
AfterAgent(ids, i) ==
  IF i < Len(ids) THEN GotoAgent("simple_message", i + 1)
  ELSE IF Len(ids) >= 2 THEN Goto("parallel_messages")
  ELSE Goto("aggregate")

GwHealth ==
  /\ program = "gateway"
  /\ At("gateway_health")
  /\ \E r \in HealthResults : GwRecord(r, Goto("agent_list"))

GwAgentList ==
  /\ program = "gateway"
  /\ At("agent_list")
  /\ \E r \in AgentListResults : GwRecord(r, AfterAgent(agent_ids, 0))

\* the index of an id in AgentPool
PoolIndex(id) == CHOOSE a \in 1..Len(AgentPool) : AgentPool[a] = id

GwSimpleMessage ==
  /\ program = "gateway"
  /\ At("simple_message")
  /\ \E r \in SimpleResults[PoolIndex(agent_ids[pc.i])] :
       GwRecord(r, GotoAgent("log_entry", pc.i))

GwLogEntry ==
  /\ program = "gateway"
  /\ At("log_entry")
  /\ \E r \in LogEntryResults[PoolIndex(agent_ids[pc.i])] :
       GwRecord(r, GotoAgent("log_search", pc.i))

GwLogSearch ==
  /\ program = "gateway"
  /\ At("log_search")
  /\ \E r \in LogSearchResults[PoolIndex(agent_ids[pc.i])] :
       GwRecord(r, AfterAgent(agent_ids, pc.i))

GwParallel ==
  /\ program = "gateway"
  /\ At("parallel_messages")
  /\ \E r \in ParallelResults : GwRecord(r, Goto("aggregate"))

\* the loop over results of lines 328-336
RECURSIVE CountFailed(_, _)
CountFailed(rs, i) ==
  IF i > Len(rs) THEN 0
  ELSE (IF rs[i].passed THEN 0 ELSE 1) + CountFailed(rs, i + 1)

RECURSIVE CountPassed(_, _)
CountPassed(rs, i) ==
  IF i > Len(rs) THEN 0
  ELSE (IF rs[i].passed THEN 1 ELSE 0) + CountPassed(rs, i + 1)

GwAggregate ==
  /\ program = "gateway"
  /\ At("aggregate")
  /\ passed' = CountPassed(results, 1)
  /\ failed' = CountFailed(results, 1)
  /\ pc' = Goto("write_results")
  /\ UNCHANGED <<program, now, proberResult, started, lastRaised, wsEvent,
                 agent_ids, results, written, exitCode, uncaught>>
  /\ UNCHANGED sendVars
  /\ UNCHANGED fanVars

\* `if results_path.parent.exists():` is false: nothing is written
GwNoResultsDir ==
  /\ program = "gateway"
  /\ At("write_results")
  /\ pc' = Goto("return")
  /\ UNCHANGED <<program, now, proberResult, started, lastRaised, wsEvent,
                 agent_ids, results, passed, failed, written, exitCode,
                 uncaught>>
  /\ UNCHANGED sendVars
  /\ UNCHANGED fanVars

\* /results exists and open(results_path, "w") succeeds: json.dump
GwWriteResults ==
  /\ program = "gateway"
  /\ At("write_results")
  /\ written' = [file |-> TRUE, passed |-> passed, failed |-> failed,
                 count |-> Len(results)]
  /\ pc' = Goto("return")
  /\ UNCHANGED <<program, now, proberResult, started, lastRaised, wsEvent,
                 agent_ids, results, passed, failed, exitCode, uncaught>>
  /\ UNCHANGED sendVars
  /\ UNCHANGED fanVars

\* /results exists and open(results_path, "w") raises OSError (no write
\* permission, the path is a directory, a full disk): nothing catches it
GwWriteFails ==
  /\ program = "gateway"
  /\ At("write_results")
  /\ Exit(1, TRUE)
  /\ UNCHANGED <<program, now, proberResult, started, lastRaised, wsEvent,
                 agent_ids, results, passed, failed, written>>
  /\ UNCHANGED sendVars
  /\ UNCHANGED fanVars

\* `return failed == 0`, then `sys.exit(0 if success else 1)`
ExitStatus(nfailed) == IF nfailed = 0 THEN 0 ELSE 1

GwReturn ==
  /\ program = "gateway"
  /\ At("return")
  /\ Exit(ExitStatus(failed), FALSE)
  /\ UNCHANGED <<program, now, proberResult, started, lastRaised, wsEvent,
                 agent_ids, results, passed, failed, written>>
  /\ UNCHANGED sendVars
  /\ UNCHANGED fanVars

Next ==
  \/ ProberAttempt
  \/ ProberGivesUp
  \/ GwProbeReady
  \/ GwProbeNotReady
  \/ JailProbeConnected
  \/ JailProbeRefused
  \/ JailProbeRaises
  \/ Gate
  \/ JailTestConnection
  \/ JailTestQuery
  \/ JailTestClose
  \/ JailTestInvalid
  \/ GwFetchAgents
  \/ GwHealth
  \/ GwAgentList
  \/ GwSimpleMessage
  \/ GwLogEntry
  \/ GwLogSearch
  \/ GwParallel
  \/ GwAggregate
  \/ GwNoResultsDir
  \/ GwWriteResults
  \/ GwWriteFails
  \/ GwReturn

Spec == Init /\ [][Next]_vars

----------------------------------------------------------------------------
(* Properties *)

IsPrefix(a, b) == Len(a) <= Len(b) /\ a = SubSeq(b, 1, Len(a))

\* the scenarios of run_all_tests in declared order
JailDeclared ==
  << <<"test_connection">>, <<"test_query_message_protocol">>,
     <<"test_close_session">>, <<"test_invalid_message">> >>

\* the scenarios of run_tests in declared order, for the agents listed
GatewayDeclared(ids) ==
  LET n == Len(ids)
      total == 2 + 3 * n + (IF n >= 2 THEN 1 ELSE 0)
  IN [k \in 1..total |->
        IF k = 1 THEN <<"gateway-health">>
        ELSE IF k = 2 THEN <<"agent-list">>
        ELSE IF k > 2 + 3 * n THEN <<"parallel-messages">>
        ELSE LET a == ((k - 3) \div 3) + 1
                 j == (k - 3) % 3
             IN IF j = 0 THEN <<"simple-message-", ids[a]>>
                ELSE IF j = 1 THEN <<"pack-tool-log-entry-", ids[a]>>
                ELSE <<"pack-tool-log-search-", ids[a]>>]

Declared == IF program = "jail" THEN JailDeclared
            ELSE GatewayDeclared(agent_ids)

\* the run has left the scenario set of the gateway runner
PastScenarios ==
  \/ pc.at \in {"aggregate", "write_results", "return"}
  \/ (At("exited") /\ failed >= 0)

\* C1 as stated: in both runners no scenario's exception ends the run
\* early: after a scenario has raised, the run does not end before every
\* scenario of the declared order has been called.
C1_RunContinuesAfterRaise ==
  (lastRaised /\ At("exited")) => started = Declared

\* C1 (amended): in the gateway runner a scenario that raises is caught at
\* its boundary and recorded as that scenario's failed TestResult, and the
\* run goes on through every scenario of the declared order; in the jail
\* runner the first scenario that raises is caught by run_all_tests (no
\* traceback), the run ends there with exit code 1 and the later scenarios
\* are not called.
C1_CaughtPerRunner ==
  /\ program = "gateway" =>
       /\ Len(results) = Len(started)
       /\ \A i \in 1..Len(results) : results[i].name = started[i]
       /\ IsPrefix(started, GatewayDeclared(agent_ids))
       /\ lastRaised =>
            /\ Len(results) > 0
            /\ ~results[Len(results)].passed
            /\ results[Len(results)].error = "text"
       /\ (lastRaised /\ At("exited")) => failed >= 0
       /\ PastScenarios => started = GatewayDeclared(agent_ids)
  /\ program = "jail" =>
       /\ IsPrefix(started, JailDeclared)
       /\ lastRaised => (At("exited") /\ exitCode = 1 /\ ~uncaught)
       /\ (At("exited") /\ started # <<>> /\ ~lastRaised) =>
            (started = JailDeclared /\ exitCode = 0)

\* C1 witness: the first agent's simple-message scenario raised, its failure
\* is recorded, and the run stands before the next scenario.
C1_Witness ==
  /\ program = "gateway"
  /\ lastRaised
  /\ At("log_entry")
  /\ Len(results) = 3
  /\ ~results[3].passed

\* C2 as stated: a gateway run that got past the prober exits 0 iff the
\* aggregator's failed count is 0 (1 otherwise), failed being the number of
\* TestResults with passed == false.
C2_ExitZeroIffNoFailure ==
  (program = "gateway" /\ proberResult = "true" /\ At("exited")) =>
    /\ (exitCode = 0 <=> failed = 0)
    /\ exitCode \in {0, 1}
    /\ failed >= 0 =>
         failed = Cardinality({i \in 1..Len(results) : ~results[i].passed})

\* C3 as stated: when no probe succeeds before the deadline elapses the
\* prober does not return true; so a prober that returns true does so on a
\* success that came before the deadline.
C3_TrueOnlyBeforeDeadline ==
  [][(proberResult = "none" /\ proberResult' = "true") =>
       now' < Deadline]_vars

\* what holds of the prober's outcome in every state
C3_Always ==
  /\ proberResult = "none" => (started = <<>> /\ ~At("exited"))
  /\ proberResult \in {"false", "raised"} =>
       (started = <<>> /\ results = <<>>)
  /\ (proberResult \in {"false", "raised"} /\ At("exited")) => exitCode = 1
  /\ proberResult = "raised" => program = "jail"

\* what holds of every step in which the prober returns
C3_Step ==
  /\ (proberResult = "none" /\ proberResult' = "true") => now < Deadline
  /\ (proberResult = "none" /\ proberResult' = "false") => now >= Deadline

\* C3 (amended): in both runners the prober returns true only for a probe
\* attempt that began before the deadline (its success may arrive after
\* it) and returns false only once the deadline has elapsed; whenever the
\* prober does not return true (it returns false or, in the jail runner,
\* raises) no scenario function is started and the process ends with exit
\* code 1.
C3_ProberGate == []C3_Always /\ [][C3_Step]_vars

\* C3 witness: the prober gave up at the deadline and the run ended with
\* exit code 1 without a scenario.
C3_Witness ==
  /\ At("exited")
  /\ proberResult = "false"
  /\ exitCode = 1
  /\ started = <<>>

\* C4 as stated: neither prober ever raises; its only outcomes are
\* returning true and returning false.
C4_ProberNeverRaises == proberResult \in {"none", "true", "false"}

\* the reply frame is an error reply
ErrorReply(ws) == ws.kind = "reply" /\ JsonLoadsWs(ws.raw).type = "error"

\* C5 as stated: test_invalid_message, once its message is sent, passes
\* when an error reply arrives and when the connection closes without a
\* reply, and fails on a reply of any other type.
C5_InvalidMessageVerdict ==
  (program = "jail" /\ started = JailDeclared
     /\ wsEvent.conn = "ok" /\ wsEvent.sent = "ok") =>
    /\ (ErrorReply(wsEvent) \/ wsEvent.kind = "closed") => ~lastRaised
    /\ (wsEvent.kind = "reply" /\ ~ErrorReply(wsEvent)) => lastRaised

\* what holds of the fan-out in every state
C6_Always ==
  /\ parResult # NoResult <=> fanPc = "returned"
  /\ fanPc = "returned" =>
       /\ \A i \in 1..FanWidth : members[i].st = "settled"
       /\ parResult.name = <<"parallel-messages">>
       /\ ~parResult.raised
       /\ (\E i \in 1..FanWidth : members[i].r.kind = "exc") =>
            (~parResult.passed /\ parResult.error = "text")

\* what every step of the fan-out keeps
C6_Step ==
  \A i \in 1..FanWidth :
    members[i].st = "settled" => members'[i] = members[i]

\* C6: in the fan-out scenario, whatever the order in which the members
\* settle, the TestResult is produced only after every member has settled;
\* a member that raised makes it a failed TestResult that the scenario
\* returns (nothing is re-thrown); and a member that has settled keeps its
\* outcome whatever its siblings do (none is cancelled or overwritten).
C6_FanoutSettles == []C6_Always /\ [][C6_Step]_vars

\* C6 witness: member 1 raised, member 2 returned a response of its own,
\* and the scenario returned a failed TestResult.
C6_Witness ==
  /\ fanPc = "returned"
  /\ members[1].r.kind = "exc"
  /\ members[2].r.kind = "ok"
  /\ members[2].r.full_response = PyStr(T_hi)
  /\ ~parResult.passed

\* an aggregated response that is present and not the empty text
NonEmptyResponse(r) ==
  /\ r.kind = "ok"
  /\ r.full_response.t # "none"
  /\ r.full_response # PyStr(T_empty)

\* C7 as stated: the fan-out passes iff every member call yields a
\* non-empty aggregated response.
C7_PassIffAllNonEmpty ==
  fanPc = "returned" =>
    (parResult.passed <=>
       \A i \in 1..FanWidth : NonEmptyResponse(members[i].r))

\* C7 (amended): the fan-out passes iff every member call returns (does not
\* raise) with a full_response that is present, i.e. not None; neither its
\* length nor the status code is looked at, so an empty aggregated response
\* passes.
C7_PassIffAllPresent ==
  fanPc = "returned" =>
    (parResult.passed <=>
       \A i \in 1..FanWidth :
         /\ members[i].r.kind = "ok"
         /\ members[i].r.full_response.t # "none")

\* C7 witness: the fan-out passed although a member's aggregated response
\* is the empty string.
C7_Witness ==
  /\ fanPc = "returned"
  /\ parResult.passed
  /\ members[1].r.full_response = PyStr(T_empty)

\* C8 as stated: once the gateway prober has returned true the run reaches
\* the aggregator and ends with a verdict, never on an uncaught exception.
C8_ReadyRunReachesVerdict ==
  (program = "gateway" /\ proberResult = "true" /\ At("exited")) =>
    (~uncaught /\ failed >= 0)

\* a tool-use event as test_pack_tool_log_entry looks for it
ToolUseEvent(e) ==
  \/ InStr(e, T_tool_use)
  \/ (e.k = "dict" /\ e.name = PyStr(T_log_entry))

\* keyword kw appears in the response text
KeywordIn(r, kw) ==
  r.full_response.t = "str" /\ Contains(Lower(r.full_response.v), kw)

Keywords(r) ==
  IF scen = "log_entry" THEN KeywordIn(r, T_logged)
  ELSE KeywordIn(r, T_found) \/ KeywordIn(r, T_entries)

\* C9 as stated: each tool-invocation scenario passes iff the aggregated
\* response is non-empty and either a tool-use event is among the streamed
\* events or the scenario's keywords appear in the response text.
C9_PassIffNonEmptyAndToolOrKeyword ==
  scen \in {"log_entry", "log_search"} =>
    (tr.passed <=>
       /\ NonEmptyResponse(callOut)
       /\ \/ \E i \in 1..Len(callOut.events) : ToolUseEvent(callOut.events[i])
          \/ Keywords(callOut))

\* a tool-use event is met before any streamed payload that is no object
ToolUseSeen(evs) ==
  \E i \in 1..Len(evs) :
    /\ ToolUseEvent(evs[i])
    /\ \A j \in 1..(i - 1) : evs[j].k = "dict"

\* C9 (amended): test_pack_tool_log_entry passes iff send_message returns
\* with status 200 and a full_response that is not None (it may be empty)
\* and either a tool-use event is observed before any streamed payload that
\* is not a JSON object, or every event is a JSON object and the response
\* text contains "logged" in any letter case; test_pack_tool_log_search
\* passes iff send_message returns with status 200 and a response text that
\* contains "found" or "entries" in any letter case, tool-use events not
\* being consulted.
C9_ToolScenarioVerdicts ==
  /\ scen = "log_entry" =>
       (tr.passed <=>
          /\ callOut.kind = "ok"
          /\ callOut.status_code = 200
          /\ callOut.full_response.t # "none"
          /\ \/ ToolUseSeen(callOut.events)
             \/ /\ \A j \in 1..Len(callOut.events) :
                     callOut.events[j].k = "dict"
                /\ KeywordIn(callOut, T_logged))
  /\ scen = "log_search" =>
       (tr.passed <=>
          /\ callOut.kind = "ok"
          /\ callOut.status_code = 200
          /\ (KeywordIn(callOut, T_found) \/ KeywordIn(callOut, T_entries)))

\* C9 witness: log_entry passed on a tool-use event with an empty
\* aggregated response.
C9_Witness ==
  /\ scen = "log_entry"
  /\ tr.passed
  /\ callOut.full_response = PyStr(T_empty)

\* the payloads of the "data: " lines that are valid JSON, in stream order
RECURSIVE Payloads(_, _)
Payloads(lines, i) ==
  IF i > Len(lines) THEN <<>>
  ELSE IF lines[i].marker = "data: " /\ JsonLoads(lines[i].body) # DecodeError
       THEN <<JsonLoads(lines[i].body)>> \o Payloads(lines, i + 1)
       ELSE Payloads(lines, i + 1)

\* the value of the last payload that has a full_response field, else None
LastFullResponse(ps) ==
  LET has == {i \in 1..Len(ps) : ps[i].full_response # Absent}
  IN IF has = {} THEN PyNone
     ELSE ps[CHOOSE i \in has : \A j \in has : j <= i].full_response

\* C10 as stated: for every sequence of response lines send_message returns,
\* never raises; its events are the JSON payloads of the "data: " lines in
\* stream order and its full_response is that of the last payload carrying
\* the field (None when there is none).
C10_ParseNeverRaises ==
  (callOut # NotCalled /\ httpOutcome.kind = "resp") =>
    /\ callOut.kind = "ok"
    /\ callOut.events = Payloads(httpOutcome.lines, 1)
    /\ callOut.full_response = LastFullResponse(callOut.events)

====
